---- MODULE Spec2Model ----
(***************************************************************************)
(* The REGTECH collection pipeline of qws941/blacklist:                    *)
(*   RegtechCollector       (collectors/regtech_collector_core.py)         *)
(*   RegtechCollectorData   (collectors/regtech_collector_data.py)         *)
(*   RegtechDataProcessor   (collectors/regtech_data_processor.py)         *)
(*   RegtechAuth            (collectors/regtech_auth.py)                   *)
(*   trigger_regtech_collection (routes/collection_api.py)                 *)
(*                                                                         *)
(* Strings are sequences of one-character strings.  An ip string is held   *)
(* split on ".", as the sequence of its decimal fields; the empty string   *)
(* and a missing "ip" key are both the empty sequence (the code only tests *)
(* them for truthiness).  The remote site, the cookie files and the        *)
(* database server are the environment: what they answer is drawn from the *)
(* sets below.                                                             *)
(***************************************************************************)
EXTENDS Integers, Sequences, FiniteSets, TLC

\* ------------------------------------------------------------------ bounds
\* Longest input handed to remove_duplicates on its own.
MaxDedupLen == 3
\* Longest cookie string handed to RegtechAuth.set_cookie_string on its own.
MaxCookieLen == 5
\* Pages of the short listing read by robust_collect_ips on its own.
ShortListing == 3
\* Runs of collect_from_web started on the one Collector.
MaxRuns == 2
\* GETs of a cookie pass, and logins, that a run makes while another run is
\* in progress on the same Collector.
MaxRaceRequests == 1
\* Pages of the login-based listing that can hold records; later pages are
\* empty or fail.
MaxDataPages == 2

\* ------------------------------------------------------- program constants
session_retry_limit == 3
max_page_errors == 5
max_pages == 100
\* "if len(ips) > 10" in the HTML branch of the path loop.
html_enough == 10

blacklist_urls ==
  << "/board/11/boardList",
     "/fcti/securityAdvisory/advisoryList",
     "/fcti/securityAdvisory/blacklistDownload",
     "/fcti/threat/threatList",
     "/fcti/threat/ipBlacklist",
     "/fcti/report/threatReport",
     "/board/boardList?menuCode=FCTI",
     "/threat/intelligence/ipList" >>

\* ------------------------------------------------------------- ip strings
IpA == <<1, 1, 1, 1>>
IpB == <<2, 2, 2, 2>>
IpBad == <<1, 2, 3, 256>>
NoIp == <<>>

\* RegtechValidationUtils.is_valid_ip: falsy strings are rejected, the rest
\* goes to ipaddress.ip_address (here: four fields, each 0..255).
is_valid_ip(ip_str) ==
  IF ip_str = <<>> THEN FALSE
  ELSE /\ Len(ip_str) = 4
       /\ \A i \in 1..4 : ip_str[i] \in 0..255

\* RegtechValidationUtils.validate_threat_data
validate_threat_data(data) ==
  IF data.ip = <<>> THEN FALSE ELSE is_valid_ip(data.ip)

\* A threat record as the collectors build it.
Rec(ip, source, level) == [ip |-> ip, source |-> source, threat_level |-> level]

\* ------------------------------------------------------ RegtechDataProcessor
RECURSIVE validate_and_transform_data(_)
validate_and_transform_data(data) ==
  IF data = <<>> THEN <<>>
  ELSE IF validate_threat_data(Head(data))
       THEN <<Head(data)>> \o validate_and_transform_data(Tail(data))
       ELSE validate_and_transform_data(Tail(data))

RECURSIVE DedupLoopKeepLast(_, _, _)
\* A remove_duplicates that lets a later record of an ip replace the first.
DedupLoopKeepLast(data, seen_ips, unique_data) ==
  IF data = <<>> THEN unique_data
  ELSE LET item == Head(data)
           ip == item.ip
       IN IF ip = <<>> THEN DedupLoopKeepLast(Tail(data), seen_ips, unique_data)
          ELSE IF ip \in seen_ips
          THEN DedupLoopKeepLast(Tail(data), seen_ips,
                 [i \in 1..Len(unique_data) |->
                    IF unique_data[i].ip = ip THEN item ELSE unique_data[i]])
          ELSE DedupLoopKeepLast(Tail(data), seen_ips \cup {ip},
                                 Append(unique_data, item))

RECURSIVE DedupLoop(_, _, _)
\* The loop of remove_duplicates: seen_ips and unique_data are its locals.
DedupLoop(data, seen_ips, unique_data) ==
  IF data = <<>> THEN unique_data
  ELSE LET item == Head(data)
           ip == item.ip
       IN IF ip # <<>> /\ ip \notin seen_ips
          THEN DedupLoop(Tail(data), seen_ips \cup {ip}, Append(unique_data, item))
          ELSE DedupLoop(Tail(data), seen_ips, unique_data)

remove_duplicates(data) == DedupLoop(data, {}, <<>>)

RECURSIVE HtmlRecords(_)
\* process_html_response on the regex matches of the page text: every match
\* that is a valid ip becomes a record.
HtmlRecords(matches) ==
  IF matches = <<>> THEN <<>>
  ELSE IF is_valid_ip(Head(matches))
       THEN <<Rec(Head(matches), "REGTECH_HTML", "medium")>> \o HtmlRecords(Tail(matches))
       ELSE HtmlRecords(Tail(matches))

ip_keys == <<"ip", "ip_address", "address", "host">>

\* item.get(key, default) on a JSON object held as a function on its keys.
Get(item, key, default) == IF key \in DOMAIN item THEN item[key] ELSE default

\* _extract_ip_from_dict: the value under the first alias the item has, kept
\* when it is truthy and a valid ip.  None is <<>>, a record r is <<r>>.
extract_ip_from_dict(item) ==
  LET present == {i \in 1..Len(ip_keys) : ip_keys[i] \in DOMAIN item}
      first == CHOOSE i \in present : \A j \in present : i <= j
      ip_value == IF present = {} THEN <<>> ELSE item[ip_keys[first]]
  IN IF ip_value # <<>> /\ is_valid_ip(ip_value)
     THEN << Rec(ip_value, "REGTECH_JSON", Get(item, "threat_level", "medium")) >>
     ELSE <<>>

RECURSIVE ExtractAll(_)
ExtractAll(items) ==
  IF items = <<>> THEN <<>>
  ELSE extract_ip_from_dict(Head(items)) \o ExtractAll(Tail(items))

\* process_json_response: a list of objects, an object with a "data" list,
\* or a single object.
process_json_response(body) ==
  IF body.shape = "list" THEN ExtractAll(body.items)
  ELSE IF body.shape = "dict_data" THEN ExtractAll(body.items)
  ELSE IF body.shape = "single" THEN extract_ip_from_dict(body.items[1])
  ELSE <<>>

\* process_html_response on the response's regex matches.
process_html_response(matches) == HtmlRecords(matches)

\* process_excel_response: unimplemented upstream, always empty.
process_excel_response(response) == <<>>

\* ------------------------------------------------------------ RegtechAuth
Str(s) == [kind |-> "str", chars |-> s]
NoneValue == [kind |-> "none", chars |-> <<>>]
\* A truthy JSON value that is no string (a number, a list).
NonString == [kind |-> "nonstr", chars |-> <<>>]

\* Python truthiness of a value read from a cookie file.
Truthy(v) == v.kind = "nonstr" \/ (v.kind = "str" /\ v.chars # <<>>)

RECURSIVE SplitOn(_, _, _)
\* s.split(sep): cur is the piece being read.
SplitOn(s, sep, cur) ==
  IF s = <<>> THEN <<cur>>
  ELSE IF Head(s) = sep THEN <<cur>> \o SplitOn(Tail(s), sep, <<>>)
       ELSE SplitOn(Tail(s), sep, Append(cur, Head(s)))

RECURSIVE LStrip(_)
LStrip(s) == IF s # <<>> /\ Head(s) = " " THEN LStrip(Tail(s)) ELSE s

RECURSIVE RStrip(_)
RStrip(s) ==
  IF s # <<>> /\ s[Len(s)] = " " THEN RStrip(SubSeq(s, 1, Len(s) - 1)) ELSE s

\* s.strip()
Strip(s) == RStrip(LStrip(s))

\* The index of the first c in s, 0 when there is none.
IndexOf(s, c) ==
  IF \E i \in 1..Len(s) : s[i] = c
  THEN CHOOSE i \in 1..Len(s) : s[i] = c /\ \A j \in 1..(i - 1) : s[j] # c
  ELSE 0

\* self.cookies = {}
EmptyCookies == [k \in {} |-> <<>>]

RECURSIVE ParsePairs(_, _)
\* The for loop of set_cookie_string over cookie_string.split(";"): a pair
\* with "=" is stripped and split at its first "=", a later key replaces an
\* earlier one.
ParsePairs(pairs, cookies) ==
  IF pairs = <<>> THEN cookies
  ELSE LET pair == Head(pairs)
           stripped == Strip(pair)
           eq == IndexOf(stripped, "=")
           key == SubSeq(stripped, 1, eq - 1)
           value == SubSeq(stripped, eq + 1, Len(stripped))
       IN IF IndexOf(pair, "=") # 0
          THEN ParsePairs(Tail(pairs),
                 [k \in DOMAIN cookies \cup {key} |->
                    IF k = key THEN value ELSE cookies[k]])
          ELSE ParsePairs(Tail(pairs), cookies)

\* RegtechAuth.set_cookie_string on the auth state [mode, cookies]: a
\* non-empty string sets the parsed mapping and enables cookie mode, an empty
\* one disables it; a value that is no string raises in split and the handler
\* disables cookie mode.  Only a successful parse assigns self.cookies.
set_cookie_string(auth, v) ==
  IF v.kind = "str" /\ v.chars # <<>>
  THEN [mode |-> TRUE, cookies |-> ParsePairs(SplitOn(v.chars, ";", <<>>), EmptyCookies)]
  ELSE [mode |-> FALSE, cookies |-> auth.cookies]

UpperLetters == <<"A","B","C","D","E","F","G","H","I","J","K","L","M",
                  "N","O","P","Q","R","S","T","U","V","W","X","Y","Z">>
LowerLetters == <<"a","b","c","d","e","f","g","h","i","j","k","l","m",
                  "n","o","p","q","r","s","t","u","v","w","x","y","z">>

\* str.lower()
Lower(s) ==
  [i \in 1..Len(s) |->
     IF \E k \in 1..26 : UpperLetters[k] = s[i]
     THEN LowerLetters[CHOOSE k \in 1..26 : UpperLetters[k] = s[i]]
     ELSE s[i]]

\* sub in s
Contains(s, sub) ==
  \E i \in 1..(Len(s) - Len(sub) + 1) : SubSeq(s, i, i + Len(sub) - 1) = sub

LoginWord == <<"l", "o", "g", "i", "n">>

\* An expiry test that compares the Location header as it is written.
ExpiredCaseSensitive(response) ==
  IF response.status = 401 THEN TRUE
  ELSE IF response.status = 302
       THEN Contains(response.location, LoginWord)
       ELSE FALSE

\* RegtechAuth._is_cookie_expired
is_cookie_expired(response) ==
  IF response.status = 401 THEN TRUE
  ELSE IF response.status = 302
       THEN Contains(Lower(response.location), LoginWord)
       ELSE FALSE

\* A login that takes only 200 as success.
LoginOnly200(post) ==
  IF post.kind = "exc" THEN FALSE
  ELSE post.status = 200

\* RegtechAuth.robust_login on the outcome of its POST: 200 and 302 are
\* success, another status and an exception of the POST are failure.
robust_login(post) ==
  IF post.kind = "exc" THEN FALSE
  ELSE post.status \in {200, 302}

\* ------------------------------------------ credentials at construction
\* Python's None where a username or a password is expected.
None == "None"

Pair(username, password) == [username |-> username, password |-> password]

\* What get_credentials returns: a pair, or None.
Some(pair) == [some |-> TRUE, pair |-> pair]
NoCredentials == [some |-> FALSE, pair |-> Pair(None, None)]

\* x or ""
OrEmpty(x) == IF x = None THEN "" ELSE x

\* os.getenv("REGTECH_USERNAME"), os.getenv("REGTECH_PASSWORD")
EnvPair(env) == Pair(env.username, env.password)

\* AuthManager.get_credentials: the row of collection_credentials, None
\* when there is none; when the query fails, the environment variables if
\* both are set, else None.
get_credentials(store, env) ==
  IF store.kind = "row"
  THEN Some(Pair(OrEmpty(store.username), OrEmpty(store.password)))
  ELSE IF store.kind = "no_row" THEN NoCredentials
  ELSE IF env.username \notin {None, ""} /\ env.password \notin {None, ""}
       THEN Some(EnvPair(env))
       ELSE NoCredentials

\* Lines 43-49 of RegtechCollector.__init__: the pair of the store, else the
\* environment variables.
FromStore(credentials, env) ==
  IF credentials.some THEN credentials.pair ELSE EnvPair(env)

\* RegtechCollector._load_db_config on the username and password set so far:
\* when the settings module cannot be imported, and when its database has no
\* credentials, both are assigned from the environment variables; else from
\* the settings database.
load_db_config(current, env, settings) ==
  IF settings.kind = "import_error" THEN EnvPair(env)
  ELSE IF settings.kind = "credentials"
       THEN Pair(settings.username, settings.password)
       ELSE EnvPair(env)

\* RegtechCollector.__init__: the username and password handed to
\* RegtechCollectorAuth, which RegtechAuth keeps and robust_login posts.
collector_init(store, env, settings) ==
  load_db_config(FromStore(get_credentials(store, env), env), env, settings)

\* login_data of robust_login: self.username and self.password of the
\* RegtechAuth, the values its constructor was given; the attributes of the
\* RegtechCollector are not read again.
login_data(held_by_auth, held_by_collector) == held_by_auth

\* The username and password trigger_regtech_collection reads from
\* collection_credentials: the row's, "" for each when there is no row or
\* the query fails.
RouteCredentials(store) ==
  IF store.kind = "row"
  THEN Pair(OrEmpty(store.username), OrEmpty(store.password))
  ELSE Pair("", "")

\* ------------------------------------------------------------ environment
\* What the cookie files can hold under "cookie_string" (auto_extract_cookies
\* returns the first truthy one, None when no file has one).
CookieAB == <<"a", "=", "1", ";", " ", "b", "=", "2">>
CookieJunk == <<"j", "u", "n", "k">>
ExtractResults == {NoneValue, Str(CookieAB), Str(CookieJunk), NonString}
\* What a caller can hand to Collector.set_cookie_string.
CallerCookies == {Str(<<>>), Str(CookieAB), Str(CookieJunk)}

LocLogin == <<"/", "l", "o", "g", "i", "n", "?", "x", "=", "1">>
LocLoginUpper == <<"/", "L", "o", "g", "i", "n">>
LocDashboard == <<"/", "d", "a", "s", "h", "b", "o", "a", "r", "d">>
Locations == {LocLogin, LocLoginUpper, LocDashboard, <<>>}

\* Regex matches of an HTML page text.
BigHtml == [i \in 1..(html_enough + 1) |-> IF i % 2 = 1 THEN IpA ELSE IpB]
HtmlBodies == {<<>>, <<IpBad>>, <<IpA, IpBad>>, BigHtml}

JsonItemA == [ip |-> IpA]
JsonItemAHigh == [ip |-> IpA, threat_level |-> "high"]
JsonItemB == [ip_address |-> IpB, host |-> IpA]
JsonItemBad == [address |-> IpBad, host |-> IpA]
NoJson == [shape |-> "none", items |-> <<>>]
JsonBodies ==
  { [shape |-> "list", items |-> <<>>],
    [shape |-> "list", items |-> <<JsonItemA, JsonItemAHigh>>],
    [shape |-> "dict_data", items |-> <<JsonItemB, JsonItemBad>>],
    [shape |-> "single", items |-> <<JsonItemBad>>] }

Resp(status, location, ctype, matches, json) ==
  [kind |-> "resp", status |-> status, location |-> location, ctype |-> ctype,
   matches |-> matches, json |-> json]
\* session.get / session.post raised.
RaisedResp == [kind |-> "exc", status |-> 0, location |-> <<>>, ctype |-> "other",
               matches |-> <<>>, json |-> NoJson]

\* Answers of the site to a GET of one endpoint path.  ctype stands for the
\* substring tests on the content-type header.
GetResponses ==
  {RaisedResp}
    \cup {Resp(st, <<>>, "other", <<>>, NoJson) : st \in {401, 404, 500}}
    \cup {Resp(302, loc, "other", <<>>, NoJson) : loc \in Locations}
    \cup {Resp(200, <<>>, "html", m, NoJson) : m \in HtmlBodies}
    \cup {Resp(200, <<>>, "json", <<>>, j) : j \in JsonBodies}
    \cup {Resp(200, <<>>, ct, <<>>, NoJson) : ct \in {"excel", "other"}}

\* Answers of the site to the login POST.
PostResponses ==
  {RaisedResp} \cup {Resp(st, <<>>, "other", <<>>, NoJson) : st \in {200, 302, 401, 500}}

\* What collect_single_page can hand back for one page: its records, or an
\* exception.  (The shipped body is a placeholder that returns the empty
\* page; the listing is the remote site's.)
PageA == <<Rec(IpA, "REGTECH", "high")>>
PageAB == <<Rec(IpA, "REGTECH", "low"), Rec(IpB, "REGTECH", "medium")>>
PageBad == <<Rec(IpBad, "REGTECH", "medium"), Rec(NoIp, "REGTECH", "medium")>>
PageBodies == {<<>>, PageA, PageAB, PageBad}
\* The exceptions a page request can end in: two RequestExceptions of the
\* requests library, and one that is none.
PageFailures == {"connection_error", "timeout", "exception"}
PageOutcomes(page) ==
  {[kind |-> k, records |-> <<>>] : k \in PageFailures}
    \cup {[kind |-> "page", records |-> b] :
            b \in IF page < MaxDataPages THEN PageBodies ELSE {<<>>, PageBad}}

\* How the database server answers one save_to_database call.
DbOutcomes == {"ok", "connect_error", "error_after_delete", "error_in_insert"}

\* --------------------------------------------------------------- database
\* A row of blacklist_ips.  ip_address carries the unique index that the
\* ON CONFLICT (ip_address) clauses name.  detection_count is held relative
\* to the column default: a freshly inserted row has 0.  The columns that
\* only carry a timestamp or a label are left out.
Row(ip, source, count) == [ip |-> ip, source |-> source, detection_count |-> count]

RowIps(rows) == {row.ip : row \in rows}

RECURSIVE BatchData(_)
\* The batch_data loop of save_to_database: records without an ip are skipped.
BatchData(collected_ips) ==
  IF collected_ips = <<>> THEN <<>>
  ELSE IF Head(collected_ips).ip = <<>> THEN BatchData(Tail(collected_ips))
       ELSE <<Head(collected_ips).ip>> \o BatchData(Tail(collected_ips))

\* executemany of the plain INSERT hits the unique index: an ip of the batch
\* is stored already, or the batch names an ip twice.
UniqueViolation(rows, batch) ==
  \/ \E i \in 1..Len(batch) : batch[i] \in RowIps(rows)
  \/ \E i, j \in 1..Len(batch) : i < j /\ batch[i] = batch[j]

\* An except clause that leaves the work of the failed transaction in place,
\* as a connection in autocommit mode would.
OnDbErrorKeepWork(rows, work, error) == [db |-> work, count |-> 0, error |-> error]

\* The except clause of save_to_database: conn.rollback() discards what the
\* transaction did so far (work), the committed rows stay, 0 is returned.
OnDbError(rows, work, error) == [db |-> rows, count |-> 0, error |-> error]

\* RegtechCollector.save_to_database: [db, count, error].  One transaction:
\* DELETE of the REGTECH rows, INSERT of the batch, commit only after the
\* INSERT; any exception rolls back and returns 0.  error names the
\* exception the call met, "none" when it met none.
save_to_database(rows, collected_ips, outcome) ==
  LET kept == {row \in rows : row.source # "REGTECH"}
      batch == BatchData(collected_ips)
      inserted == {Row(batch[i], "REGTECH", 0) : i \in 1..Len(batch)}
  IN IF collected_ips = <<>> THEN [db |-> rows, count |-> 0, error |-> "none"]
     ELSE IF outcome = "connect_error" THEN OnDbError(rows, rows, "connect_error")
     ELSE IF outcome = "error_after_delete"
          THEN OnDbError(rows, kept, "error_after_delete")
     ELSE IF batch = <<>> THEN [db |-> rows, count |-> 0, error |-> "none"]
     ELSE IF outcome = "error_in_insert"
          THEN OnDbError(rows, kept, "error_in_insert")
     ELSE IF UniqueViolation(kept, batch)
          THEN OnDbError(rows, kept, "unique_violation")
     ELSE [db |-> kept \cup inserted, count |-> Len(batch), error |-> "none"]

\* One INSERT ... ON CONFLICT (ip_address) DO UPDATE of the route.
UpsertOne(rows, ip) ==
  IF ip \in RowIps(rows)
  THEN {IF row.ip = ip
        THEN [row EXCEPT !.detection_count = row.detection_count + 1]
        ELSE row : row \in rows}
  ELSE rows \cup {Row(ip, "REGTECH", 0)}

RECURSIVE route_upsert_all(_, _)
\* The record loop of trigger_regtech_collection: records without an ip are
\* skipped, the others are upserted in order.
route_upsert_all(rows, regtech_data) ==
  IF regtech_data = <<>> THEN rows
  ELSE IF Head(regtech_data).ip = <<>>
       THEN route_upsert_all(rows, Tail(regtech_data))
       ELSE route_upsert_all(UpsertOne(rows, Head(regtech_data).ip),
                             Tail(regtech_data))

\* ------------------------------------------------------------------ state
VARIABLES
  run,              \* per collect_from_web call: position, locals, history
  auth,             \* RegtechAuth: [mode |-> cookie_auth_mode, cookies |-> cookies]
  current_session,  \* RegtechCollector.current_session, 0 for None
  sessions,         \* the requests.Session objects made for the runs in progress
  db,               \* the rows of blacklist_ips
  runsStarted,      \* calls of collect_from_web so far
  dedup,            \* remove_duplicates applied on its own: input and outputs
  call              \* a method called on its own: arguments, result

vars == <<run, auth, current_session, sessions, db, runsStarted, dedup, call>>

\* The calls of collect_from_web on the one Collector; Spec runs them one
\* after the other as call 1.
RunIds == {1, 2}

NoReturn == [raised |-> FALSE, data |-> <<>>]
NoResult == [escaped |-> FALSE, success |-> FALSE, data |-> <<>>, count |-> 0,
             error |-> "unset"]

\* No sleep after a page request that did not fail.
NoBackoff == [kind |-> "none", n |-> 0, slept |-> FALSE, seconds |-> 0]

\* A run before collect_from_web is called.  The fields after "session" are
\* the locals of the code; the others record what the run has done so far.
IdleRun ==
  [pc |-> "idle",
   startMode |-> FALSE,       \* cookie_auth_mode when _collect_data began
   extracts |-> 0,            \* calls of auto_extract_cookies
   firstExtract |-> "unset",  \* kind of value the first of them returned
   lastExtract |-> "unset",   \* kind of value the last of them returned
   passes |-> 0,              \* calls of collect_with_cookies
   firstEmpty |-> FALSE,      \* the first of them returned no record
   gets |-> 0,                \* GETs of the current cookie pass
   expiredAt |-> 0,           \* path index whose response was detected expired
   enteredLogin |-> FALSE,    \* _collect_with_login was called
   logins |-> 0,              \* calls of robust_login (login POSTs)
   loginSessions |-> 0,       \* sessions created by _collect_with_login
   loginsAtFirstPass |-> 0,   \* logins when the first cookie pass began
   firstHttp |-> "none",      \* kind of the first HTTP request
   extractsAtFirstHttp |-> 0, \* extracts when the first HTTP request went out
   saves |-> 0,               \* calls of save_to_database
   saved_count |-> 0,         \* what the last of them returned
   save_error |-> "none",     \* the exception the last of them met
   dropped |-> FALSE,         \* the page filter has dropped a record
   site |-> "none",           \* which collect_with_cookies call: first, retry
   session |-> 0,
   pathIdx |-> 0,
   collected_ips |-> <<>>,
   cdata |-> <<>>,            \* collected_data of _collect_data
   session_retry_count |-> 0,
   page |-> 0,
   consecutive_errors |-> 0,
   all_ips |-> <<>>,
   ret |-> NoReturn,          \* what _collect_data returned or raised
   result |-> NoResult]       \* what collect_from_web returned

NoDedup == [stage |-> "off", input |-> <<>>, once |-> <<>>, twice |-> <<>>]

\* RegtechAuth.__init__: cookie mode off, no cookies.
FreshAuth == [mode |-> FALSE, cookies |-> EmptyCookies]

\* No method has been called on its own.
NoCall == [fn |-> "none", cookie_string |-> NoneValue, response |-> RaisedResp,
           before |-> FreshAuth, result |-> FALSE,
           credentials |-> NoCredentials, env |-> Pair(None, None),
           login_data |-> Pair(None, None),
           listing |-> -1,            \* pages of records the listing has
           failed |-> FALSE,          \* a page request has failed
           streak |-> 0,              \* page requests that failed in a row
           failures |-> 0,            \* page requests that failed, counted up
                                      \* to one more than max_page_errors
           max_requested |-> -1,      \* highest page index requested
           repeated |-> FALSE,        \* a page index was requested again
           skipped |-> FALSE,         \* a page index was passed over
           backoff |-> NoBackoff,     \* the sleep after the last page request
           cancel |-> "absent",       \* self._cancel_event: absent, clear, set
           cancelled |-> FALSE,       \* a poll of the event found it set
           set_during |-> "none",     \* where the loop was when it was set
           set_page |-> -1,           \* the page index it was at
           bad_page |-> -1,           \* index of the listing's page of bad records
           bad_kind |-> "none",       \* all of its records are invalid, or some
           collector |-> Pair(None, None),  \* username, password of the Collector
           post |-> [kind |-> "none", status |-> 0],  \* how the login POST ended
           posts |-> 0,               \* POSTs the call has issued
           raised |-> FALSE]          \* the call ended in an exception

Init ==
  /\ run = [r \in RunIds |-> IdleRun]
  /\ auth = FreshAuth
  /\ current_session = 0
  /\ sessions = [s \in {} |-> 0]
  /\ db = {}
  /\ runsStarted = 0
  /\ dedup = NoDedup
  /\ call = NoCall

\* ------------------------------------------------------------- sessions
NewSid == CHOOSE s \in 1..(Cardinality(DOMAIN sessions) + 1) : s \notin DOMAIN sessions

\* requests.Session() made by run r.
WithSession(ss, sid, r, kind) ==
  [s \in DOMAIN ss \cup {sid} |->
     IF s = sid THEN [owner |-> r, kind |-> kind, closed |-> FALSE] ELSE ss[s]]

\* session.close(); sid = 0 is the "if self.current_session" test failing.
Closed(ss, sid) ==
  [s \in DOMAIN ss |-> IF s = sid THEN [ss[s] EXCEPT !.closed = TRUE] ELSE ss[s]]

\* The call r is over: its history, the sessions it made included, is no
\* longer looked at.
Forget(ss, r) == [s \in {x \in DOMAIN ss : ss[x].owner # r} |-> ss[s]]

\* ------------------------------------------------------- RegtechCollector
Set(r, L) == run' = [run EXCEPT ![r] = L]

\* The first HTTP request of a run goes out: remember its kind.
NoteHttp(L, kind) ==
  IF L.firstHttp = "none"
  THEN [L EXCEPT !.firstHttp = kind, !.extractsAtFirstHttp = L.extracts]
  ELSE L

\* collect_with_cookies has returned: its locals and the history of its
\* path loop are gone.
PassOver(L) ==
  [L EXCEPT !.session = 0, !.pathIdx = 0, !.collected_ips = <<>>,
            !.gets = 0, !.expiredAt = 0]

\* robust_collect_ips has returned: its locals are gone.
PagingOver(L) ==
  [L EXCEPT !.session = 0, !.page = 0, !.consecutive_errors = 0, !.all_ips = <<>>]

\* _collect_with_login is entered: its locals are initialised.
EnterLogin(L) ==
  [L EXCEPT !.pc = "login_loop", !.enteredLogin = TRUE,
            !.collected_ips = <<>>, !.session_retry_count = 0]

\* auto_extract_cookies returned v.
NoteExtract(L, v) ==
  [L EXCEPT !.extracts = L.extracts + 1,
            !.firstExtract = IF L.extracts = 0 THEN v.kind ELSE L.firstExtract,
            !.lastExtract = v.kind]

\* collect_from_web is called: a new event loop runs _collect_data.
collect_from_web_call(r) ==
  /\ run[r].pc = "idle"
  /\ runsStarted < MaxRuns
  /\ Set(r, [IdleRun EXCEPT !.pc = "collect_data", !.startMode = auth.mode])
  /\ runsStarted' = runsStarted + 1
  /\ UNCHANGED <<auth, current_session, sessions, db, dedup, call>>

\* A _collect_data that skips the extraction of step 1.
NeverExtract(mode) == FALSE

\* "if not self.auth_module.cookie_auth_mode" of step 1.
NeedsExtraction(mode) == ~mode

\* _collect_data, step 1: without cookies, auto-extraction; a truthy value is
\* handed to set_cookie_string, None sends the run to _collect_with_login.
collect_data_extract(r) ==
  /\ run[r].pc = "collect_data"
  /\ NeedsExtraction(auth.mode)
  /\ \E v \in ExtractResults :
       LET L == NoteExtract(run[r], v)
       IN IF Truthy(v)
          THEN /\ auth' = set_cookie_string(auth, v)
               /\ Set(r, [L EXCEPT !.pc = "check_mode"])
          ELSE /\ auth' = auth
               /\ Set(r, EnterLogin(L))
  /\ UNCHANGED <<current_session, sessions, db, runsStarted, dedup, call>>

\* _collect_data, step 2: "if self.auth_module.cookie_auth_mode" chooses
\* collect_with_cookies or _collect_with_login.
collect_data_check_mode(r) ==
  /\ \/ run[r].pc = "check_mode"
     \/ run[r].pc = "collect_data" /\ ~NeedsExtraction(auth.mode)
  /\ IF auth.mode
     THEN Set(r, [run[r] EXCEPT !.pc = "cookie_begin", !.site = "first"])
     ELSE Set(r, EnterLogin(run[r]))
  /\ UNCHANGED <<auth, current_session, sessions, db, runsStarted, dedup, call>>

\* collect_with_cookies up to its path loop: get_authenticated_session makes
\* a session with the stored cookies, or gives None and the call returns [].
collect_with_cookies_begin(r) ==
  /\ run[r].pc = "cookie_begin"
  /\ LET L == [run[r] EXCEPT !.passes = run[r].passes + 1, !.gets = 0,
                             !.expiredAt = 0, !.collected_ips = <<>>,
                             !.loginsAtFirstPass =
                                IF run[r].passes = 0 THEN run[r].logins
                                ELSE run[r].loginsAtFirstPass]
     IN IF auth.mode
        THEN /\ sessions' = WithSession(sessions, NewSid, r, "cookie")
             /\ Set(r, [L EXCEPT !.pc = "cookie_loop", !.session = NewSid,
                                 !.pathIdx = 1])
        ELSE /\ sessions' = sessions
             /\ Set(r, [L EXCEPT !.pc = "cookie_returned", !.cdata = <<>>])
  /\ UNCHANGED <<auth, current_session, db, runsStarted, dedup, call>>

\* The end of collect_with_cookies after its loop: validated records or [].
LoopEnds(L) ==
  [L EXCEPT !.pc = "cookie_returned",
            !.cdata = IF L.collected_ips # <<>>
                      THEN validate_and_transform_data(L.collected_ips)
                      ELSE <<>>]

\* A path loop that passes over the path after the one just requested.
NextPathSkip(L) ==
  IF L.pathIdx < Len(blacklist_urls)
  THEN [L EXCEPT !.pathIdx = L.pathIdx + 2]
  ELSE LoopEnds(L)

\* "continue": the next path, or the end of the list.
NextPath(L) ==
  IF L.pathIdx < Len(blacklist_urls)
  THEN [L EXCEPT !.pathIdx = L.pathIdx + 1]
  ELSE LoopEnds(L)

\* An expiry that is logged and skipped like an unreadable response.
OnExpiredSkip(L) == NextPath(L)

\* "return []" on a response detected as expired.
OnExpired(L) == [L EXCEPT !.pc = "cookie_returned", !.cdata = <<>>]

\* One iteration of the path loop on the response to its GET.
PathStep(L, response) ==
  IF response.kind = "exc" THEN NextPath(L)
  ELSE IF is_cookie_expired(response)
       THEN OnExpired([L EXCEPT !.expiredAt = L.pathIdx])
  ELSE IF response.status = 200
       THEN IF response.ctype = "excel"
            THEN LET ips == process_excel_response(response)
                 IN IF ips # <<>>
                    THEN LoopEnds([L EXCEPT !.collected_ips = L.collected_ips \o ips])
                    ELSE NextPath(L)
            ELSE IF response.ctype = "html"
            THEN LET ips == process_html_response(response.matches)
                     M == [L EXCEPT !.collected_ips = L.collected_ips \o ips]
                 IN IF ips # <<>>
                    THEN IF Len(ips) > html_enough THEN LoopEnds(M) ELSE NextPath(M)
                    ELSE NextPath(L)
            ELSE IF response.ctype = "json"
            THEN LET ips == process_json_response(response.json)
                 IN IF ips # <<>>
                    THEN LoopEnds([L EXCEPT !.collected_ips = L.collected_ips \o ips])
                    ELSE NextPath(L)
            ELSE NextPath(L)
  ELSE IF response.status = 302 /\ Contains(response.location, LoginWord)
       THEN LoopEnds(L)
  ELSE NextPath(L)

\* collect_with_cookies, one path: GET, expiry test, dispatch on content type.
collect_with_cookies_get(r) ==
  /\ run[r].pc = "cookie_loop"
  /\ \E response \in GetResponses :
       Set(r, PathStep(NoteHttp([run[r] EXCEPT !.gets = run[r].gets + 1],
                                "cookie_get"),
                       response))
  /\ UNCHANGED <<auth, current_session, sessions, db, runsStarted, dedup, call>>

\* A _collect_data that re-extracts after every empty cookie pass.
ReExtractAlways(site, collected_data) == collected_data = <<>>

\* A _collect_data that re-extracts after the first cookie pass whatever it
\* returned.
ReExtractAnyway(site, collected_data) == site = "first"

\* "if not collected_data" after the first collect_with_cookies; the retry's
\* result is returned as it is.
ReExtract(site, collected_data) == site = "first" /\ collected_data = <<>>

\* _collect_data, step 3: the result of a cookie pass.
collect_data_after_cookies(r) ==
  /\ run[r].pc = "cookie_returned"
  /\ IF ReExtract(run[r].site, run[r].cdata)
     THEN \E v \in ExtractResults :
            LET L == NoteExtract(PassOver([run[r] EXCEPT !.firstEmpty = TRUE]), v)
            IN IF Truthy(v)
               THEN /\ auth' = set_cookie_string(auth, v)
                    /\ Set(r, [L EXCEPT !.pc = "cookie_begin", !.site = "retry"])
               ELSE /\ auth' = auth
                    /\ Set(r, EnterLogin(L))
     ELSE /\ auth' = auth
          /\ Set(r, [PassOver(run[r]) EXCEPT
                       !.pc = "returned",
                       !.ret = [raised |-> FALSE, data |-> run[r].cdata]])
  /\ UNCHANGED <<current_session, sessions, db, runsStarted, dedup, call>>

\* A retry loop that admits one attempt more than the limit.
LoginLoopOneMore(session_retry_count) == session_retry_count <= session_retry_limit

\* "while session_retry_count < self.session_retry_limit"
LoginLoopContinues(session_retry_count) == session_retry_count < session_retry_limit

\* _collect_with_login, one iteration up to the login: create_session,
\* robust_login.  A failed login raises, the handler counts the retry, the
\* finally clause closes self.current_session; with the retries used up
\* the method raises.
collect_with_login_attempt(r) ==
  /\ run[r].pc = "login_loop"
  /\ LoginLoopContinues(run[r].session_retry_count)
  /\ \E post \in PostResponses :
       LET sid == NewSid
           made == WithSession(sessions, sid, r, "login")
           L == NoteHttp([run[r] EXCEPT !.session = sid,
                                        !.logins = run[r].logins + 1,
                                        !.loginSessions = run[r].loginSessions + 1],
                         "login_post")
           count == L.session_retry_count + 1
       IN IF robust_login(post)
          THEN /\ sessions' = made
               /\ current_session' = sid
               /\ Set(r, [L EXCEPT !.pc = "page_loop", !.page = 0,
                                   !.consecutive_errors = 0, !.all_ips = <<>>])
          ELSE /\ sessions' = Closed(made, sid)
               /\ current_session' = 0
               /\ Set(r, IF LoginLoopContinues(count)
                         THEN [L EXCEPT !.session_retry_count = count]
                         ELSE [L EXCEPT !.session_retry_count = count,
                                        !.session = 0,
                                        !.pc = "returned",
                                        !.ret = [raised |-> TRUE, data |-> <<>>]])
  /\ UNCHANGED <<auth, db, runsStarted, dedup, call>>

\* A page loop that takes every record of the page as it comes.
AllPageIps(page_ips) == page_ips

RECURSIVE ValidPageIps(_)
\* The is_valid_ip filter of robust_collect_ips over one page.
ValidPageIps(page_ips) ==
  IF page_ips = <<>> THEN <<>>
  ELSE IF is_valid_ip(Head(page_ips).ip)
       THEN <<Head(page_ips)>> \o ValidPageIps(Tail(page_ips))
       ELSE ValidPageIps(Tail(page_ips))

\* A page loop that still requests the page of index max_pages.
PageLoopOneMorePage(L) ==
  L.page <= max_pages /\ L.consecutive_errors < max_page_errors

\* A page loop that tries once more after max_page_errors failures in a row.
PageLoopOneMoreError(L) ==
  L.page < max_pages /\ L.consecutive_errors <= max_page_errors

\* "while page < max_pages and consecutive_errors < self.max_page_errors"
PageLoopContinues(L) ==
  L.page < max_pages /\ L.consecutive_errors < max_page_errors

\* "except requests.exceptions.RequestException"
IsRequestException(kind) == kind \in {"connection_error", "timeout"}

\* A page loop that backs off as the session retries of _collect_with_login
\* do: 5, 3 or 2 seconds times the count, by the kind of exception.
PageBackoffByKind(kind, consecutive_errors) ==
  IF consecutive_errors < max_page_errors
  THEN [kind |-> kind, n |-> consecutive_errors, slept |-> TRUE,
        seconds |-> (IF kind = "connection_error" THEN 5
                     ELSE IF kind = "timeout" THEN 3 ELSE 2) * consecutive_errors]
  ELSE [kind |-> kind, n |-> consecutive_errors, slept |-> FALSE, seconds |-> 0]

\* The sleep of the two except clauses of the page loop, consecutive_errors
\* counted already: none when the ceiling is reached.
PageBackoff(kind, consecutive_errors) ==
  IF consecutive_errors < max_page_errors
  THEN [kind |-> kind, n |-> consecutive_errors, slept |-> TRUE,
        seconds |-> IF IsRequestException(kind) THEN 2 * consecutive_errors ELSE 1]
  ELSE [kind |-> kind, n |-> consecutive_errors, slept |-> FALSE, seconds |-> 0]

\* A page loop that counts a page without a valid record as a failure.
OnEmptyPageAsError(L) ==
  [L EXCEPT !.consecutive_errors = L.consecutive_errors + 1]

\* A page loop that goes on to the next page after an empty one.
OnEmptyPageNext(L) == [L EXCEPT !.page = L.page + 1]

\* "break" on a page without a valid record.
OnEmptyPage(L) == [L EXCEPT !.pc = "page_done"]

\* A page loop whose counter counts every failure of the run: a page with
\* records does not reset it.
PageStepNoReset(M, out) ==
  LET page_ips == ValidPageIps(out.records)
      L == [M EXCEPT !.dropped = M.dropped \/ Len(page_ips) < Len(out.records)]
  IN IF out.kind = "page"
     THEN IF page_ips = <<>>
          THEN OnEmptyPage(L)
          ELSE [L EXCEPT !.all_ips = L.all_ips \o page_ips,
                         !.page = L.page + 1]
     ELSE [L EXCEPT !.consecutive_errors = L.consecutive_errors + 1]

\* One iteration of the page loop on the outcome of collect_single_page: the
\* page is filtered; an empty page ends the loop, an exception counts a
\* consecutive error.
PageStep(M, out) ==
  LET page_ips == ValidPageIps(out.records)
      L == [M EXCEPT !.dropped = M.dropped \/ Len(page_ips) < Len(out.records)]
  IN IF out.kind = "page"
     THEN IF page_ips = <<>>
          THEN OnEmptyPage(L)
          ELSE [L EXCEPT !.all_ips = L.all_ips \o page_ips,
                         !.consecutive_errors = 0,
                         !.page = L.page + 1]
     ELSE [L EXCEPT !.consecutive_errors = L.consecutive_errors + 1]

\* robust_collect_ips, one iteration.  Nothing in the repository assigns
\* _cancel_event, so the poll at the head of the iteration answers false.
robust_collect_ips_page(r) ==
  /\ run[r].pc = "page_loop"
  /\ PageLoopContinues(run[r])
  /\ \E out \in PageOutcomes(run[r].page) : Set(r, PageStep(run[r], out))
  /\ UNCHANGED <<auth, current_session, sessions, db, runsStarted, dedup, call>>

\* robust_collect_ips: the loop condition fails.
robust_collect_ips_exit(r) ==
  /\ run[r].pc = "page_loop"
  /\ ~PageLoopContinues(run[r])
  /\ Set(r, [run[r] EXCEPT !.pc = "page_done"])
  /\ UNCHANGED <<auth, current_session, sessions, db, runsStarted, dedup, call>>

\* A finally clause that closes the session its own iteration made.
OwnSession(L, shared) == L.session

\* The finally clause of _collect_with_login closes self.current_session,
\* the field of the Collector, not the local variable session.
SessionToClose(L, shared) == shared

\* The end of robust_collect_ips and of the iteration of _collect_with_login
\* that called it: remove_duplicates, save_to_database when there are
\* records, break, the finally clause, return.
collect_with_login_finish(r) ==
  /\ run[r].pc = "page_done"
  /\ \E outcome \in DbOutcomes :
       LET L == PagingOver(run[r])
           unique_ips == remove_duplicates(run[r].all_ips)
           saved == save_to_database(db, unique_ips, outcome)
       IN IF unique_ips # <<>>
          THEN /\ db' = saved.db
               /\ Set(r, [L EXCEPT !.pc = "returned", !.collected_ips = unique_ips,
                                   !.saves = L.saves + 1,
                                   !.saved_count = saved.count,
                                   !.save_error = saved.error,
                                   !.ret = [raised |-> FALSE, data |-> unique_ips]])
          ELSE /\ db' = db
               /\ Set(r, [L EXCEPT !.pc = "returned", !.collected_ips = unique_ips,
                                   !.ret = [raised |-> FALSE, data |-> unique_ips]])
  /\ sessions' = Closed(sessions, SessionToClose(run[r], current_session))
  /\ current_session' = 0
  /\ UNCHANGED <<auth, runsStarted, dedup, call>>

\* A collect_from_web without its except clause.
EnvelopeNoCatch(ret) ==
  IF ret.raised
  THEN [escaped |-> TRUE, success |-> FALSE, data |-> <<>>, count |-> 0,
        error |-> "unset"]
  ELSE [escaped |-> FALSE, success |-> TRUE, data |-> ret.data,
        count |-> Len(ret.data), error |-> "none"]

\* A collect_from_web that reports a run without records as failed.
EnvelopeEmptyFails(ret) ==
  IF ret.raised \/ ret.data = <<>>
  THEN [escaped |-> FALSE, success |-> FALSE, data |-> <<>>, count |-> 0,
        error |-> "max retries exceeded"]
  ELSE [escaped |-> FALSE, success |-> TRUE, data |-> ret.data,
        count |-> Len(ret.data), error |-> "none"]

\* The two return statements of collect_from_web.
Envelope(ret) ==
  IF ret.raised
  THEN [escaped |-> FALSE, success |-> FALSE, data |-> <<>>, count |-> 0,
        error |-> "max retries exceeded"]
  ELSE [escaped |-> FALSE, success |-> TRUE, data |-> ret.data,
        count |-> Len(ret.data), error |-> "none"]

\* collect_from_web: _collect_data has returned or raised.
collect_from_web_return(r) ==
  /\ run[r].pc = "returned"
  /\ Set(r, [run[r] EXCEPT !.pc = "done", !.result = Envelope(run[r].ret)])
  /\ UNCHANGED <<auth, current_session, sessions, db, runsStarted, dedup, call>>

\* trigger_regtech_collection after collect_from_web: a failed envelope is
\* answered with 500, the data of a successful one is upserted.
route_persist(r) ==
  /\ run[r].pc = "done"
  /\ db' = IF run[r].result.success
           THEN route_upsert_all(db, run[r].result.data)
           ELSE db
  /\ Set(r, IdleRun)
  /\ sessions' = Forget(sessions, r)
  /\ UNCHANGED <<auth, current_session, runsStarted, dedup, call>>

\* Another caller of collect_from_web takes the envelope and persists nothing.
caller_returns(r) ==
  /\ run[r].pc = "done"
  /\ Set(r, IdleRun)
  /\ sessions' = Forget(sessions, r)
  /\ UNCHANGED <<auth, current_session, db, runsStarted, dedup, call>>

\* RegtechCollector.set_cookie_string, called between runs.
collector_set_cookie_string ==
  /\ \A r \in RunIds : run[r].pc = "idle"
  /\ \E v \in CallerCookies : auth' = set_cookie_string(auth, v)
  /\ UNCHANGED <<run, current_session, sessions, db, runsStarted, dedup, call>>

Next ==
  \/ collector_set_cookie_string
  \/ \E r \in {1} :
       \/ collect_from_web_call(r)
       \/ collect_data_extract(r)
       \/ collect_data_check_mode(r)
       \/ collect_with_cookies_begin(r)
       \/ collect_with_cookies_get(r)
       \/ collect_data_after_cookies(r)
       \/ collect_with_login_attempt(r)
       \/ robust_collect_ips_page(r)
       \/ robust_collect_ips_exit(r)
       \/ collect_with_login_finish(r)
       \/ collect_from_web_return(r)
       \/ route_persist(r)
       \/ caller_returns(r)

Spec == Init /\ [][Next]_vars

\* ------------------------------------------- remove_duplicates on its own
DedupRecords ==
  {Rec(ip, "REGTECH", level) : ip \in {IpA, IpB, NoIp}, level \in {"high", "low"}}

SeqsUpTo(S, n) == UNION {[1..k -> S] : k \in 0..n}

InitDedup ==
  /\ run = [r \in RunIds |-> IdleRun]
  /\ auth = [mode |-> FALSE, cookies |-> EmptyCookies]
  /\ current_session = 0
  /\ sessions = [s \in {} |-> 0]
  /\ db = {}
  /\ runsStarted = 0
  /\ dedup \in {[stage |-> "input", input |-> data, once |-> <<>>, twice |-> <<>>] :
                  data \in SeqsUpTo(DedupRecords, MaxDedupLen)}
  /\ call = NoCall

remove_duplicates_call ==
  /\ dedup.stage = "input"
  /\ dedup' = [dedup EXCEPT !.stage = "once", !.once = remove_duplicates(dedup.input)]
  /\ UNCHANGED <<run, auth, current_session, sessions, db, runsStarted, call>>

remove_duplicates_again ==
  /\ dedup.stage = "once"
  /\ dedup' = [dedup EXCEPT !.stage = "twice", !.twice = remove_duplicates(dedup.once)]
  /\ UNCHANGED <<run, auth, current_session, sessions, db, runsStarted, call>>

NextDedup == remove_duplicates_call \/ remove_duplicates_again

SpecDedup == InitDedup /\ [][NextDedup]_vars

\* ------------------------- RegtechAuth and the construction on their own
\* The characters of the cookie strings tried: two names, the pair and list
\* separators, the space.
CookieAlphabet == {"a", "b", "=", ";", " "}
CookieInputs == {Str(cs) : cs \in SeqsUpTo(CookieAlphabet, MaxCookieLen)}

\* Responses handed to _is_cookie_expired.
LocLoginAllUpper == <<"L", "O", "G", "I", "N">>
LocLogi == <<"/", "l", "o", "g", "i">>
ExpiryStatuses == {200, 301, 302, 303, 307, 400, 401, 403, 404, 500, 503}
ExpiryResponses ==
  {Resp(st, loc, "other", <<>>, NoJson) :
     st \in ExpiryStatuses, loc \in Locations \cup {LocLoginAllUpper, LocLogi}}

\* What the credential table, the environment and the settings module can
\* be when a Collector is constructed.
StoreStates ==
  { [kind |-> "row", username |-> "store_user", password |-> "store_pw"],
    [kind |-> "row", username |-> "store_user", password |-> None],
    [kind |-> "no_row", username |-> None, password |-> None],
    [kind |-> "error", username |-> None, password |-> None] }
EnvStates ==
  {[username |-> u, password |-> pw] : u \in {None, "env_user"}, pw \in {None, "env_pw"}}
SettingsStates ==
  { [kind |-> "import_error", username |-> None, password |-> None],
    [kind |-> "no_credentials", username |-> None, password |-> None],
    [kind |-> "credentials", username |-> "settings_user", password |-> "settings_pw"] }

\* The RegtechAuth of a Collector: as constructed, or after an earlier
\* set_cookie_string.
InitAuth ==
  /\ run = [r \in RunIds |-> IdleRun]
  /\ auth \in {FreshAuth, set_cookie_string(FreshAuth, Str(CookieAB))}
  /\ current_session = 0
  /\ sessions = [s \in {} |-> 0]
  /\ db = {}
  /\ runsStarted = 0
  /\ dedup = NoDedup
  /\ call = NoCall

set_cookie_string_call ==
  /\ call.fn = "none"
  /\ \E v \in CookieInputs :
       /\ auth' = set_cookie_string(auth, v)
       /\ call' = [NoCall EXCEPT !.fn = "set_cookie_string", !.cookie_string = v,
                                 !.before = auth]
  /\ UNCHANGED <<run, current_session, sessions, db, runsStarted, dedup>>

is_cookie_expired_call ==
  /\ call.fn = "none"
  /\ \E response \in ExpiryResponses :
       call' = [NoCall EXCEPT !.fn = "is_cookie_expired", !.response = response,
                              !.before = auth,
                              !.result = is_cookie_expired(response)]
  /\ UNCHANGED <<run, auth, current_session, sessions, db, runsStarted, dedup>>

\* RegtechCollector(config): credentials is what the store returned,
\* login_data what robust_login of the new Collector posts.
collector_init_call ==
  /\ call.fn = "none"
  /\ auth = FreshAuth
  /\ \E store \in StoreStates, env \in EnvStates, settings \in SettingsStates :
       call' = [NoCall EXCEPT !.fn = "collector_init",
                              !.credentials = get_credentials(store, env),
                              !.env = env,
                              !.login_data = collector_init(store, env, settings)]
  /\ UNCHANGED <<run, auth, current_session, sessions, db, runsStarted, dedup>>

\* How session.post of robust_login can end: a response with a status, or
\* an exception (of the requests library, or any other).
LoginStatuses == {200, 201, 204, 301, 302, 303, 400, 401, 403, 404, 500, 503}
LoginPosts ==
  {[kind |-> "resp", status |-> st] : st \in LoginStatuses}
    \cup {[kind |-> k, status |-> 0] : k \in PageFailures}

\* The outcome as robust_login sees it.
ToPost(p) ==
  IF p.kind = "resp" THEN Resp(p.status, <<>>, "other", <<>>, NoJson) ELSE RaisedResp

\* RegtechAuth.robust_login(session): one session.post inside try; the
\* except clause returns False.
robust_login_call ==
  /\ call.fn = "none"
  /\ \E p \in LoginPosts :
       call' = [NoCall EXCEPT !.fn = "robust_login", !.post = p, !.posts = 1,
                              !.before = auth,
                              !.result = robust_login(ToPost(p)),
                              !.raised = FALSE]
  /\ UNCHANGED <<run, auth, current_session, sessions, db, runsStarted, dedup>>

\* trigger_regtech_collection up to the login of the run it starts: the
\* credentials are read, a request without both is answered with 400; a
\* Collector is constructed, its username and password are assigned, and
\* collect_from_web is called.  collector is what the Collector holds then,
\* login_data what robust_login posts.
trigger_regtech_collection_call ==
  /\ call.fn = "none"
  /\ auth = FreshAuth
  /\ \E store \in StoreStates, env \in EnvStates, settings \in SettingsStates :
       LET route == RouteCredentials(store)
           constructed == collector_init(store, env, settings)
       IN /\ route.username # "" /\ route.password # ""
          /\ call' = [NoCall EXCEPT !.fn = "trigger_regtech_collection",
                                    !.credentials = get_credentials(store, env),
                                    !.env = env,
                                    !.collector = route,
                                    !.login_data = login_data(constructed, route)]
  /\ UNCHANGED <<run, auth, current_session, sessions, db, runsStarted, dedup>>

NextAuth ==
  \/ trigger_regtech_collection_call
  \/ set_cookie_string_call
  \/ is_cookie_expired_call
  \/ collector_init_call
  \/ robust_login_call

SpecAuth == InitAuth /\ [][NextAuth]_vars

\* ------------------------------------------- robust_collect_ips on its own
\* A listing of the remote site with k pages of records: page p < k holds a
\* valid record (an ip comes back every third page, under another threat
\* level), every later page is empty.  A listing of max_pages pages never
\* shows its empty page to the loop.
ListingLengths == {0, 1, ShortListing, max_pages - 1, max_pages}

ListingPage(k, page) ==
  IF page < k
  THEN << Rec(<<10, 0, 0, page % 3>>, "REGTECH", IF page % 2 = 0 THEN "high" ELSE "low") >>
  ELSE <<>>

\* What collect_single_page can hand back for a page of the listing: the
\* page, or any of the exceptions.
ListingOutcomes(k, page) ==
  {[kind |-> kind, records |-> <<>>] : kind \in PageFailures}
    \cup {[kind |-> "page", records |-> ListingPage(k, page)]}

\* A run that found no cookie string and whose first login succeeded: it
\* is about to call robust_collect_ips with session 1.
LoggedInRun ==
  LET started == [IdleRun EXCEPT !.pc = "collect_data", !.startMode = FALSE]
      entered == EnterLogin(NoteExtract(started, NoneValue))
      posted == NoteHttp([entered EXCEPT !.session = 1, !.logins = 1,
                                         !.loginSessions = 1], "login_post")
  IN [posted EXCEPT !.pc = "page_loop", !.page = 0, !.consecutive_errors = 0,
                    !.all_ips = <<>>]

InitPages ==
  /\ run = [r \in RunIds |-> IF r = 1 THEN LoggedInRun ELSE IdleRun]
  /\ auth = FreshAuth
  /\ current_session = 1
  /\ sessions = WithSession([s \in {} |-> 0], 1, 1, "login")
  /\ db = {}
  /\ runsStarted = 1
  /\ dedup = NoDedup
  /\ call \in {[NoCall EXCEPT !.fn = "robust_collect_ips", !.listing = k] :
                  k \in ListingLengths}

\* The page L.page is requested and the request ends as kind: what the
\* loop was seen doing, the sleep of its except clause included.
NoteRequest(H, L, kind) ==
  [H EXCEPT !.max_requested = IF L.page > H.max_requested THEN L.page
                              ELSE H.max_requested,
            !.repeated = H.repeated \/ L.page <= H.max_requested,
            !.skipped = H.skipped \/ L.page > H.max_requested + 1,
            !.failed = H.failed \/ kind # "page",
            !.streak = IF kind = "page" THEN 0 ELSE H.streak + 1,
            !.failures = IF kind = "page" \/ H.failures > max_page_errors
                         THEN H.failures ELSE H.failures + 1,
            !.backoff = IF kind = "page" THEN NoBackoff
                        ELSE PageBackoff(kind, L.consecutive_errors + 1)]

\* robust_collect_ips, one iteration on the listing.
robust_collect_ips_listing_page(r) ==
  /\ run[r].pc = "page_loop"
  /\ PageLoopContinues(run[r])
  /\ \E out \in ListingOutcomes(call.listing, run[r].page) :
       /\ Set(r, PageStep(run[r], out))
       /\ call' = NoteRequest(call, run[r], out.kind)
  /\ UNCHANGED <<auth, current_session, sessions, db, runsStarted, dedup>>

NextPages ==
  \E r \in {1} :
    \/ robust_collect_ips_listing_page(r)
    \/ robust_collect_ips_exit(r)
    \/ collect_with_login_finish(r)

SpecPages == InitPages /\ [][NextPages]_vars

\* ------------------- robust_collect_ips on a listing with a bad page
\* The listing of ShortListing pages, one of which holds records whose ip
\* is no ip address: all of its records, or all but the page's own.
BadPageRecords == PageBad

BadListingPage(k, bad_page, bad_kind, page) ==
  IF page = bad_page
  THEN IF bad_kind = "all" THEN BadPageRecords
       ELSE BadPageRecords \o ListingPage(k, page)
  ELSE ListingPage(k, page)

BadListingOutcomes(k, bad_page, bad_kind, page) ==
  {[kind |-> kind, records |-> <<>>] : kind \in PageFailures}
    \cup {[kind |-> "page", records |-> BadListingPage(k, bad_page, bad_kind, page)]}

InitBadPage ==
  /\ run = [r \in RunIds |-> IF r = 1 THEN LoggedInRun ELSE IdleRun]
  /\ auth = FreshAuth
  /\ current_session = 1
  /\ sessions = WithSession([s \in {} |-> 0], 1, 1, "login")
  /\ db = {}
  /\ runsStarted = 1
  /\ dedup = NoDedup
  /\ call \in {[NoCall EXCEPT !.fn = "robust_collect_ips",
                               !.listing = ShortListing,
                               !.bad_page = b, !.bad_kind = kind] :
                  b \in 0..(ShortListing - 1), kind \in {"all", "some"}}

\* robust_collect_ips, one iteration on the listing with the bad page.
robust_collect_ips_bad_listing_page(r) ==
  /\ run[r].pc = "page_loop"
  /\ PageLoopContinues(run[r])
  /\ \E out \in BadListingOutcomes(call.listing, call.bad_page, call.bad_kind,
                                    run[r].page) :
       /\ Set(r, PageStep(run[r], out))
       /\ call' = NoteRequest(call, run[r], out.kind)
  /\ UNCHANGED <<auth, current_session, sessions, db, runsStarted, dedup>>

NextBadPage ==
  \E r \in {1} :
    \/ robust_collect_ips_bad_listing_page(r)
    \/ robust_collect_ips_exit(r)
    \/ collect_with_login_finish(r)

SpecBadPage == InitBadPage /\ [][NextBadPage]_vars

\* ------------------------------------- two runs on the one Collector
\* collect_from_web is called from two threads on the same Collector; no
\* lock is taken anywhere on the way.  The runs take turns at their network
\* requests.  What is looked at is the part of the runs' product in which
\* each is called once, makes few requests and is handed no record: the
\* sessions and the cookie state are what the runs share.
RaceWindow ==
  /\ runsStarted <= Cardinality(RunIds)
  /\ \A r \in RunIds :
       /\ run[r].gets <= MaxRaceRequests
       /\ run[r].logins <= MaxRaceRequests
       /\ run[r].collected_ips = <<>>
       /\ run[r].all_ips = <<>>

NextRace ==
  /\ \E r \in RunIds :
       \/ collect_from_web_call(r)
       \/ collect_data_extract(r)
       \/ collect_data_check_mode(r)
       \/ collect_with_cookies_begin(r)
       \/ collect_with_cookies_get(r)
       \/ collect_data_after_cookies(r)
       \/ collect_with_login_attempt(r)
       \/ robust_collect_ips_page(r)
       \/ robust_collect_ips_exit(r)
       \/ collect_with_login_finish(r)
       \/ collect_from_web_return(r)
       \/ caller_returns(r)
  /\ RaceWindow'

SpecRace == Init /\ [][NextRace]_vars

\* ------------------------------- robust_collect_ips with a cancel event
\* A caller has given the data module a _cancel_event (a threading.Event)
\* that another thread can set at any moment.  The iteration is taken in
\* its steps: the poll, the page delay, the request.
ShouldCancelNever(cancel_event) == FALSE

\* RegtechValidationUtils.should_cancel
should_cancel(cancel_event) ==
  IF cancel_event = "absent" THEN FALSE ELSE cancel_event = "set"

\* The listings short enough to be cancelled at every point.
CancelListings == {k \in ListingLengths : k <= ShortListing}

InitCancel ==
  /\ run = [r \in RunIds |-> IF r = 1 THEN LoggedInRun ELSE IdleRun]
  /\ auth = FreshAuth
  /\ current_session = 1
  /\ sessions = WithSession([s \in {} |-> 0], 1, 1, "login")
  /\ db = {}
  /\ runsStarted = 1
  /\ dedup = NoDedup
  /\ call \in {[NoCall EXCEPT !.fn = "robust_collect_ips", !.listing = k,
                               !.cancel = c,
                               !.set_during = IF c = "set" THEN "before" ELSE "none"] :
                  k \in CancelListings, c \in {"absent", "clear", "set"}}

\* cancel_event.set() in another thread.
cancel_event_set(r) ==
  /\ run[r].pc \in {"page_loop", "page_delay", "page_request"}
  /\ call.cancel = "clear"
  /\ call' = [call EXCEPT !.cancel = "set", !.set_during = run[r].pc,
                          !.set_page = run[r].page]
  /\ UNCHANGED <<run, auth, current_session, sessions, db, runsStarted, dedup>>

\* The head of an iteration: the while condition holds, the event is polled;
\* "break" when it is set, else on to the page delay (after page 0) and the
\* request.
robust_collect_ips_poll(r) ==
  /\ run[r].pc = "page_loop"
  /\ PageLoopContinues(run[r])
  /\ IF should_cancel(call.cancel)
     THEN /\ Set(r, [run[r] EXCEPT !.pc = "page_done"])
          /\ call' = [call EXCEPT !.cancelled = TRUE]
     ELSE /\ Set(r, [run[r] EXCEPT !.pc = IF run[r].page > 0 THEN "page_delay"
                                          ELSE "page_request"])
          /\ call' = call
  /\ UNCHANGED <<auth, current_session, sessions, db, runsStarted, dedup>>

\* "await asyncio.sleep(self.page_delay)" ends.
robust_collect_ips_delay(r) ==
  /\ run[r].pc = "page_delay"
  /\ Set(r, [run[r] EXCEPT !.pc = "page_request"])
  /\ UNCHANGED <<auth, current_session, sessions, db, runsStarted, dedup, call>>

\* collect_single_page returns or raises, and the rest of the iteration,
\* the sleep of an except clause included, runs up to the while condition.
robust_collect_ips_request(r) ==
  /\ run[r].pc = "page_request"
  /\ \E out \in ListingOutcomes(call.listing, run[r].page) :
       /\ Set(r, PageStep([run[r] EXCEPT !.pc = "page_loop"], out))
       /\ call' = NoteRequest(call, run[r], out.kind)
  /\ UNCHANGED <<auth, current_session, sessions, db, runsStarted, dedup>>

NextCancel ==
  \E r \in {1} :
    \/ cancel_event_set(r)
    \/ robust_collect_ips_poll(r)
    \/ robust_collect_ips_delay(r)
    \/ robust_collect_ips_request(r)
    \/ robust_collect_ips_exit(r)
    \/ collect_with_login_finish(r)

SpecCancel == InitCancel /\ [][NextCancel]_vars

\* ================================================================ claims
Ended(L) == L.pc \in {"returned", "done"}

\* C1: collect_from_web lets no exception escape; when _collect_data raises
\* (the retries of the login are used up) it returns success = false,
\* data = [], count = 0 and an error string.
C1_EnvelopeOnRaise ==
  \A r \in RunIds :
    run[r].pc = "done" =>
      /\ ~run[r].result.escaped
      /\ run[r].ret.raised =>
           /\ run[r].result.success = FALSE
           /\ run[r].result.data = <<>>
           /\ run[r].result.count = 0
           /\ run[r].result.error \notin {"none", "unset"}

C1_Witness ==
  \E r \in RunIds :
    /\ run[r].pc = "done"
    /\ run[r].ret.raised
    /\ run[r].result.error = "max retries exceeded"

\* C2 (as claimed): when the first cookie pass is empty, re-extraction gives
\* a cookie string and the retried pass is empty too, _collect_with_login is
\* attempted before the run ends.
C2_RetryEmptyFallsToLogin ==
  \A r \in RunIds :
    (/\ Ended(run[r])
     /\ run[r].firstEmpty
     /\ run[r].site = "retry"
     /\ run[r].lastExtract = "str"
     /\ run[r].cdata = <<>>) => run[r].enteredLogin

\* C3: in a run that starts in cookie mode and whose first cookie pass gives
\* no record, auto_extract_cookies is called exactly once and there are at
\* most two cookie passes.
C3_OneReExtraction ==
  \A r \in RunIds :
    /\ run[r].passes <= 2
    /\ (run[r].startMode /\ run[r].firstEmpty) =>
         /\ run[r].extracts = 1
         /\ run[r].passes <= 2

C3_Witness ==
  \E r \in RunIds :
    /\ run[r].pc = "done"
    /\ run[r].startMode
    /\ run[r].firstEmpty
    /\ run[r].passes = 2
    /\ run[r].extracts = 1

\* C4: a run that starts with cookie mode off extracts before any HTTP
\* request; a cookie string leads to cookie-based collection with no login
\* before it, no value leads to login-based collection with no cookie GET.
C4_NoSessionState ==
  \A r \in RunIds :
    (run[r].pc # "idle" /\ ~run[r].startMode) =>
      /\ run[r].firstHttp # "none" => run[r].extractsAtFirstHttp >= 1
      /\ run[r].firstExtract = "str" =>
           /\ run[r].passes >= 1 => run[r].loginsAtFirstPass = 0
           /\ run[r].enteredLogin => run[r].passes >= 1
           /\ Ended(run[r]) => run[r].passes >= 1
      /\ run[r].firstExtract = "none" =>
           /\ run[r].enteredLogin
           /\ run[r].passes = 0
           /\ run[r].gets = 0
           /\ run[r].firstHttp # "cookie_get"

C4_Witness ==
  \E r \in RunIds :
    /\ run[r].pc = "done"
    /\ ~run[r].startMode
    /\ run[r].firstExtract = "str"
    /\ run[r].firstHttp = "cookie_get"

\* C5: when every login fails, _collect_with_login makes a session and tries
\* the login exactly session_retry_limit times and then raises; there is
\* never a further attempt.
C5_BoundedSessionRetries ==
  \A r \in RunIds :
    /\ run[r].logins <= session_retry_limit
    /\ run[r].loginSessions = run[r].logins
    /\ run[r].session_retry_count <= session_retry_limit
    /\ Ended(run[r]) =>
         (run[r].ret.raised <=> run[r].session_retry_count = session_retry_limit)
    /\ run[r].ret.raised => run[r].logins = session_retry_limit

C5_Witness ==
  \E r \in RunIds :
    /\ run[r].pc = "returned"
    /\ run[r].ret.raised
    /\ run[r].logins = session_retry_limit

\* C6 (as claimed): every session made during a run, cookie session or
\* login session, is closed when the run has ended.
C6_AllSessionsClosed ==
  \A r \in RunIds :
    run[r].pc = "done" =>
      \A s \in DOMAIN sessions : sessions[s].owner = r => sessions[s].closed

\* C7: once a response of the path loop is detected as expired, no further
\* path is requested and collect_with_cookies returns [], whatever the
\* earlier paths of the pass had yielded.
C7_ExpiryAbortsPass ==
  \A r \in RunIds :
    run[r].expiredAt # 0 =>
      /\ run[r].pc # "cookie_loop"
      /\ run[r].gets = run[r].expiredAt
      /\ run[r].pathIdx = run[r].expiredAt
      /\ run[r].cdata = <<>>

C7_Witness ==
  \E r \in RunIds :
    /\ run[r].pc = "cookie_returned"
    /\ run[r].expiredAt > 1
    /\ run[r].collected_ips # <<>>

\* C8 (as claimed): the records of a successful run hold no ip twice.
C8_NoDuplicateIps ==
  \A r \in RunIds :
    (run[r].pc = "done" /\ run[r].result.success) =>
      \A i, j \in 1..Len(run[r].result.data) :
        i < j => run[r].result.data[i].ip # run[r].result.data[j].ip

\* The positions of data that hold the first record of an ip.
FirstPositions(data) ==
  {i \in 1..Len(data) :
     /\ data[i].ip # <<>>
     /\ \A j \in 1..(i - 1) : data[j].ip # data[i].ip}

\* The k-th smallest member of a set of positions.
Kth(P, k) == CHOOSE i \in P : Cardinality({j \in P : j < i}) = k - 1

\* C9: remove_duplicates returns, in input order, exactly the first record
\* of each ip of its input (a record without an ip has none), and applying
\* it to its own output changes nothing.
C9_DedupFirstWinsIdempotent ==
  /\ dedup.stage \in {"once", "twice"} =>
       LET P == FirstPositions(dedup.input)
       IN /\ Len(dedup.once) = Cardinality(P)
          /\ \A k \in 1..Len(dedup.once) : dedup.once[k] = dedup.input[Kth(P, k)]
  /\ dedup.stage = "twice" => dedup.twice = dedup.once

C9_Witness ==
  /\ dedup.stage = "twice"
  /\ \E i, j \in 1..Len(dedup.input) :
       /\ i < j
       /\ dedup.input[i].ip = dedup.input[j].ip
       /\ dedup.input[i].ip # <<>>
       /\ dedup.input[i] # dedup.input[j]
  /\ Len(dedup.once) = 2

\* C10 (as claimed): a save_to_database that stores its batch is an upsert:
\* a stored row whose ip is in the batch has its detection counter
\* incremented, the other rows stay in place.
C10_SaveIsUpsert ==
  [][\A r \in RunIds :
       (run'[r].saves = run[r].saves + 1 /\ run'[r].saved_count > 0) =>
         \A row \in db :
           IF \E i \in 1..Len(run'[r].collected_ips) :
                run'[r].collected_ips[i].ip = row.ip
           THEN Row(row.ip, row.source, row.detection_count + 1) \in db'
           ELSE row \in db']_vars

\* C11: a save_to_database that meets a database error (on connecting, after
\* the DELETE, in the INSERT) returns 0 and leaves the stored rows exactly as
\* they were before the call.
C11_ErrorRollsBack ==
  [][\A r \in RunIds :
       (run'[r].saves = run[r].saves + 1 /\ run'[r].save_error # "none") =>
         /\ run'[r].saved_count = 0
         /\ db' = db]_vars

C11_Witness ==
  \E r \in RunIds :
    /\ run[r].pc = "returned"
    /\ run[r].saves = 1
    /\ run[r].save_error \in {"error_after_delete", "error_in_insert"}
    /\ \E row \in db : row.source = "REGTECH"

\* C12: every record handed to persistence has an ip that passes is_valid_ip:
\* the records save_to_database was called with, the data of a successful
\* envelope (what the route upserts) and so every stored row.
C12_OnlyValidIpsPersisted ==
  /\ \A row \in db : is_valid_ip(row.ip)
  /\ \A r \in RunIds :
       /\ run[r].saves > 0 =>
            \A i \in 1..Len(run[r].collected_ips) :
              is_valid_ip(run[r].collected_ips[i].ip)
       /\ (run[r].pc = "done" /\ run[r].result.success) =>
            \A i \in 1..Len(run[r].result.data) :
              is_valid_ip(run[r].result.data[i].ip)

C12_Witness ==
  \E r \in RunIds :
    /\ run[r].pc = "done"
    /\ run[r].dropped
    /\ run[r].saves = 1
    /\ run[r].saved_count > 0
    /\ run[r].result.data # <<>>
    /\ db # {}

\* The pieces of a cookie string between its ";".
Pieces(cs) == SplitOn(cs, ";", <<>>)

\* The key and the value a piece with "=" stands for: the key is what is
\* before the first "=", without the spaces around it; the value is what is
\* after it, up to the spaces that end the piece.
PieceKey(piece) == Strip(SubSeq(piece, 1, IndexOf(piece, "=") - 1))
PieceValue(piece) == RStrip(SubSeq(piece, IndexOf(piece, "=") + 1, Len(piece)))

\* Every piece of the string is a key=value pair.
AllPairs(cs) ==
  cs # <<>> /\ \A i \in 1..Len(Pieces(cs)) : IndexOf(Pieces(cs)[i], "=") # 0

\* The last piece of the string that stands for key k.
LastFor(cs, k) ==
  LET P == Pieces(cs)
      with == {i \in 1..Len(P) : IndexOf(P[i], "=") # 0 /\ PieceKey(P[i]) = k}
  IN P[CHOOSE i \in with : \A j \in with : j <= i]

\* C13 (as claimed): set_cookie_string on a string of key=value pairs enables
\* cookie mode and leaves exactly the pairs of the string in the mapping,
\* each under its key without the spaces around it, whatever was there.
C13_CookiePairsParsed ==
  (call.fn = "set_cookie_string" /\ AllPairs(call.cookie_string.chars)) =>
    LET cs == call.cookie_string.chars
        P == Pieces(cs)
        keys == {PieceKey(P[i]) : i \in 1..Len(P)}
    IN /\ auth.mode
       /\ DOMAIN auth.cookies = keys
       /\ \A k \in keys : auth.cookies[k] = PieceValue(LastFor(cs, k))

\* No piece of the string is a key=value pair (the empty string included).
NoPair(cs) == \A i \in 1..Len(Pieces(cs)) : IndexOf(Pieces(cs)[i], "=") = 0

\* C14 (as claimed): after set_cookie_string with an empty string or a
\* string without any key=value pair, cookie mode is off and the mapping is
\* empty; cookie mode is on only while the mapping holds a pair.
C14_NoPairDisablesCookieMode ==
  /\ (call.fn = "set_cookie_string" /\ NoPair(call.cookie_string.chars)) =>
       /\ ~auth.mode
       /\ auth.cookies = EmptyCookies
  /\ auth.mode => auth.cookies # EmptyCookies

\* The same letter, in either case.
SameLetter(c, d) ==
  \/ c = d
  \/ \E k \in 1..26 : {c, d} = {UpperLetters[k], LowerLetters[k]}

\* "login" is written somewhere in the header, each letter in either case.
NamesLogin(location) ==
  \E i \in 1..(Len(location) - Len(LoginWord) + 1) :
    \A k \in 1..Len(LoginWord) : SameLetter(location[i + k - 1], LoginWord[k])

\* C15: is_cookie_expired answers true exactly when the status is 401, or
\* the status is 302 and the Location header contains "login" in any case.
C15_ExpiryExactlyTwoSignals ==
  call.fn = "is_cookie_expired" =>
    (call.result <=>
       \/ call.response.status = 401
       \/ call.response.status = 302 /\ NamesLogin(call.response.location))

C15_Witness ==
  /\ call.fn = "is_cookie_expired"
  /\ call.response.status = 302
  /\ call.response.location = LocLoginUpper
  /\ call.result

\* C16 (as claimed): a new Collector logs in with the pair the credential
\* store returned whenever it returned one, and with the environment
\* variables only when the store returned None.
C16_StoreCredentialsUsed ==
  call.fn = "collector_init" =>
    /\ call.credentials.some => call.login_data = call.credentials.pair
    /\ ~call.credentials.some => call.login_data = EnvPair(call.env)

\* The records of the first n pages of listing k (n <= k), in page order.
Gathered(k, n) == [i \in 1..n |-> ListingPage(k, i - 1)[1]]

\* C17: on a listing with k < max_pages pages of records and no failing
\* request, robust_collect_ips requests the pages 0..k once each and in
\* order, halts at the empty page k and returns the records of the pages
\* 0..k-1, deduplicated in first-seen order.
C17_HaltsAtFirstEmptyPage ==
  [][\A r \in RunIds :
       (/\ run[r].pc = "page_done"
        /\ run'[r].pc = "returned"
        /\ ~call.failed
        /\ call.listing < max_pages) =>
         /\ run[r].page = call.listing
         /\ call.max_requested = call.listing
         /\ ~call.repeated
         /\ ~call.skipped
         /\ run[r].all_ips = Gathered(call.listing, call.listing)
         /\ ~run'[r].ret.raised
         /\ run'[r].ret.data =
              remove_duplicates(Gathered(call.listing, call.listing))]_vars

C17_Witness ==
  \E r \in RunIds :
    /\ run[r].pc = "page_done"
    /\ ~call.failed
    /\ call.listing = ShortListing
    /\ call.max_requested = ShortListing
    /\ Len(run[r].all_ips) = ShortListing

\* C18: the page loop halts after exactly max_page_errors failed requests in
\* a row: there is no request after the last of them, a loop that ends on a
\* failure has seen max_page_errors of them, a failed request gathers
\* nothing, and what is returned is the records of the pages read before,
\* deduplicated.
C18_HaltsAtErrorCeiling ==
  [][\A r \in RunIds :
       /\ call.streak <= max_page_errors
       /\ (run[r].pc = "page_loop" /\ call.streak = max_page_errors) =>
            /\ run'[r].pc = "page_done"
            /\ call'.max_requested = call.max_requested
            /\ call'.streak = call.streak
            /\ run'[r].all_ips = run[r].all_ips
       /\ (run[r].pc = "page_loop" /\ run'[r].pc = "page_done"
             /\ call'.streak > 0) => call'.streak = max_page_errors
       /\ (run[r].pc = "page_loop" /\ call'.streak = call.streak + 1) =>
            /\ run'[r].all_ips = run[r].all_ips
            /\ run'[r].page = run[r].page
       /\ (run[r].pc = "page_done" /\ run'[r].pc = "returned"
             /\ call.streak = max_page_errors) =>
            /\ run[r].all_ips = Gathered(call.listing, run[r].page)
            /\ ~run'[r].ret.raised
            /\ run'[r].ret.data =
                 remove_duplicates(Gathered(call.listing, run[r].page))]_vars

C18_Witness ==
  \E r \in RunIds :
    /\ run[r].pc = "page_done"
    /\ call.streak = max_page_errors
    /\ call.backoff.kind = "connection_error"
    /\ run[r].page = ShortListing - 1
    /\ run[r].all_ips # <<>>

\* C19 (as claimed): the sleep after the n-th failure in a row is base * n
\* seconds, base 5 for a connection error, 3 for a timeout, 2 for another
\* exception.
C19_BackoffByKind ==
  \A r \in RunIds :
    call.backoff.slept =>
      call.backoff.seconds =
        (IF call.backoff.kind = "connection_error" THEN 5
         ELSE IF call.backoff.kind = "timeout" THEN 3 ELSE 2) * call.streak

\* C19 (amended): a failed page request is followed by a sleep exactly when
\* fewer than max_page_errors requests have failed in a row; after the n-th
\* of them the loop sleeps 2 * n seconds when the exception is a
\* RequestException (connection error or timeout alike) and 1 second for
\* any other exception.  The delay is a function of the kind and n.
C19_PageBackoff ==
  \A r \in RunIds :
    /\ call.backoff.kind # "none" =>
         /\ call.backoff.n = call.streak
         /\ call.backoff.slept <=> call.streak < max_page_errors
    /\ call.backoff.slept =>
         call.backoff.seconds =
           IF call.backoff.kind \in {"connection_error", "timeout"}
           THEN 2 * call.streak
           ELSE 1

C19_Witness ==
  \E r \in RunIds :
    /\ run[r].pc = "page_loop"
    /\ call.backoff.kind = "connection_error"
    /\ call.streak = 3
    /\ call.backoff.slept
    /\ call.backoff.seconds = 6

\* The iterations the page loop can still make at most: the pages left up
\* to the ceiling, each with its failures, less the failures counted.
Variant(L) == (max_pages - L.page) * max_page_errors - L.consecutive_errors

\* C20: whatever the page requests end in, robust_collect_ips terminates:
\* every iteration ends the loop or lowers a measure that starts at
\* max_pages * max_page_errors and never falls below zero.  No
\* page of index max_pages or higher is requested, and at most max_pages
\* pages contribute records.
C20_TerminatesWithinCeiling ==
  [][\A r \in RunIds :
       run[r].pc = "page_loop" =>
         /\ Variant(run[r]) <= max_pages * max_page_errors
         /\ \/ run'[r].pc = "page_done"
            \/ /\ run'[r].pc = "page_loop"
               /\ Variant(run'[r]) < Variant(run[r])
               /\ Variant(run'[r]) >= 0
         /\ call'.max_requested < max_pages
         /\ ~call'.skipped
         /\ run'[r].page <= max_pages
         /\ Len(run'[r].all_ips) = run'[r].page]_vars

C20_Witness ==
  \E r \in RunIds :
    /\ run[r].pc = "page_done"
    /\ call.listing = max_pages
    /\ run[r].page = max_pages
    /\ call.max_requested = max_pages - 1
    /\ call.failed

\* C21 (as claimed): a path of the cookie pass that yields between 1 and
\* html_enough records, from an HTML or a JSON response, has its records
\* accumulated and the loop goes on with the next path of the list; only a
\* path that yields more ends the loop early.
C21_SmallYieldContinues ==
  [][\A r \in RunIds :
       (/\ run[r].pc = "cookie_loop"
        /\ run[r].pathIdx < Len(blacklist_urls)
        /\ Len(run'[r].collected_ips) - Len(run[r].collected_ips)
             \in 1..html_enough) =>
         /\ run'[r].pc = "cookie_loop"
         /\ run'[r].pathIdx = run[r].pathIdx + 1]_vars

\* C22 (as claimed): every page request of robust_collect_ips that is
\* followed by another one is followed by a request of a higher page index,
\* also when the request failed.
C22_PagesStrictlyIncrease ==
  [][\A r \in RunIds :
       (/\ run[r].pc = "page_loop"
        /\ run'[r].pc = "page_loop"
        /\ PageLoopContinues(run'[r])) => run'[r].page > run[r].page]_vars

\* C22 (amended): the paths of a cookie pass are requested in the declared
\* order, each at most once: the n-th GET of the pass asks for the n-th path.
\* The page indices requested by robust_collect_ips never decrease: a page
\* with records is followed by the request of the next index, a failed
\* request by a request of the same index.
C22_RequestOrder ==
  [][\A r \in RunIds :
       /\ run[r].pc = "cookie_loop" =>
            /\ run[r].pathIdx = run[r].gets + 1
            /\ run[r].pathIdx <= Len(blacklist_urls)
            /\ run'[r].gets = run[r].gets + 1
            /\ run'[r].pc = "cookie_loop" => run'[r].pathIdx = run[r].pathIdx + 1
            /\ run'[r].pc # "cookie_loop" => run'[r].pathIdx = run[r].pathIdx
       /\ (run[r].pc = "page_loop" /\ run'[r].pc = "page_loop") =>
            /\ run'[r].page \in {run[r].page, run[r].page + 1}
            /\ run'[r].page = run[r].page <=>
                 run'[r].consecutive_errors = run[r].consecutive_errors + 1
            /\ run'[r].page = run[r].page + 1 <=>
                 Len(run'[r].all_ips) > Len(run[r].all_ips)]_vars

C22_Witness ==
  \E r \in RunIds :
    /\ run[r].passes >= 1
    /\ run[r].pc = "page_loop"
    /\ run[r].page = 1
    /\ run[r].consecutive_errors = 2

\* C23: the cancel event is polled once per iteration of the page loop,
\* before the page request.  A poll that finds it set ends the loop without
\* a request, and what was gathered so far is returned deduplicated.  An
\* event set during the page delay or the request does not stop that
\* request: its page is read and counted, and the next poll ends the loop.
C23_CancelPolledPerIteration ==
  [][\A r \in RunIds :
       /\ (run[r].pc = "page_loop" /\ PageLoopContinues(run[r])
             /\ call'.cancel = call.cancel) =>
            IF call.cancel = "set"
            THEN /\ run'[r].pc = "page_done"
                 /\ run'[r].all_ips = run[r].all_ips
                 /\ call'.max_requested = call.max_requested
                 /\ call'.cancelled
            ELSE /\ run'[r].pc \in {"page_delay", "page_request"}
                 /\ ~call'.cancelled
       /\ run'[r].pc = "page_delay" => run[r].pc \in {"page_loop", "page_delay"}
       /\ (run'[r].pc = "page_request" /\ run[r].pc # "page_request") =>
            /\ run[r].pc \in {"page_loop", "page_delay"}
            /\ call.max_requested \in {run[r].page - 1, run[r].page}
       /\ (run[r].pc = "page_request" /\ run'[r].pc # "page_request") =>
            /\ run'[r].pc \in {"page_loop", "page_done"}
            /\ call'.max_requested = run[r].page
            /\ call'.failed \/ Len(run'[r].all_ips) = Len(run[r].all_ips) +
                                 (IF run[r].page < call.listing THEN 1 ELSE 0)
       /\ call.cancelled =>
            /\ run[r].pc \notin {"page_loop", "page_delay", "page_request"}
            /\ call'.max_requested = call.max_requested
            /\ call.set_during \in {"page_delay", "page_request"} =>
                 call.max_requested >= call.set_page
       /\ (run[r].pc = "page_done" /\ run'[r].pc = "returned") =>
            /\ ~run'[r].ret.raised
            /\ run'[r].ret.data = remove_duplicates(run[r].all_ips)]_vars

C23_Witness ==
  \E r \in RunIds :
    /\ run[r].pc = "returned"
    /\ call.cancelled
    /\ call.set_during = "page_request"
    /\ call.set_page = 1
    /\ ~call.failed
    /\ call.listing = ShortListing
    /\ Len(run[r].ret.data) = 2

\* C24: nothing serializes two runs on one Collector.  The cleanup of a run
\* closes the session that current_session names at that moment, whichever
\* run made it, and clears the field; so a run can have its session closed
\* under it by the other run, and can read a cookie mode that the other
\* run's set_cookie_string has set.
C24_CleanupClosesSharedSession ==
  [][\A r \in RunIds :
       (run[r].pc = "page_done" /\ run'[r].pc = "returned") =>
         /\ current_session' = 0
         /\ \A s \in DOMAIN sessions :
              sessions'[s].closed <=> (sessions[s].closed \/ s = current_session)]_vars

\* Run 2 began without cookie mode and went to the cookie pass without an
\* extraction of its own, on the cookie string run 1 had set; later its
\* login session is closed by the cleanup of run 1 while it is paging.
C24_Witness ==
  /\ run[1].pc \in {"returned", "done"}
  /\ run[2].pc = "page_loop"
  /\ ~run[2].startMode
  /\ run[2].firstHttp = "cookie_get"
  /\ run[2].extractsAtFirstHttp = 0
  /\ run[2].session \in DOMAIN sessions
  /\ sessions[run[2].session].owner = 2
  /\ sessions[run[2].session].closed
  /\ current_session = 0

\* C25: a call of robust_login issues one POST and does not retry; it
\* returns true exactly when the POST is answered with status 200 or 302,
\* and false, without raising, when the POST raises (connection error,
\* timeout, any other exception).
C25_LoginOnePostNoRaise ==
  call.fn = "robust_login" =>
    /\ call.posts = 1
    /\ ~call.raised
    /\ call.result <=> (call.post.kind = "resp" /\ call.post.status \in {200, 302})
    /\ call.post.kind \in PageFailures => ~call.result

C25_Witness ==
  /\ call.fn = "robust_login"
  /\ call.post.kind = "timeout"
  /\ call.posts = 1
  /\ ~call.result
  /\ ~call.raised

\* C26: a run whose cookie-based collection, first pass or retry, returned
\* a record never enters _collect_with_login: it issues no login POST, does
\* not call save_to_database, and returns exactly the records of that pass.
C26_CookieDataExcludesLogin ==
  \A r \in RunIds :
    run[r].cdata # <<>> =>
      /\ run[r].pc \in {"cookie_returned", "returned", "done"}
      /\ ~run[r].enteredLogin
      /\ run[r].logins = 0
      /\ run[r].saves = 0
      /\ Ended(run[r]) =>
           /\ ~run[r].ret.raised
           /\ run[r].ret.data = run[r].cdata
      /\ run[r].pc = "done" =>
           /\ run[r].result.success
           /\ run[r].result.data = run[r].cdata
           /\ run[r].result.count = Len(run[r].cdata)

C26_Witness ==
  \E r \in RunIds :
    /\ run[r].pc = "done"
    /\ run[r].site = "retry"
    /\ run[r].firstEmpty
    /\ run[r].cdata # <<>>
    /\ run[r].result.data = run[r].cdata

\* C27 (as claimed): the username and password robust_login posts are the
\* ones the Collector holds when collect_from_web is called, those that
\* trigger_regtech_collection assigned after the construction included.
C27_LoginUsesCollectorCredentials ==
  call.fn = "trigger_regtech_collection" => call.login_data = call.collector

\* C28: a page whose records all fail the ip validation ends the page loop
\* as an empty page does: no error is counted for it, the loop stops at its
\* index, the pages after it, which hold valid records, are never
\* requested, and the records of the pages before it are returned.  A page
\* of which only some records fail does not end the loop.
C28_AllInvalidPageEndsLoop ==
  [][\A r \in RunIds :
       /\ call.bad_kind = "all" =>
            /\ call'.max_requested <= call.bad_page
            /\ run'[r].page <= call.bad_page
            /\ (run[r].pc = "page_loop" /\ run[r].page = call.bad_page
                  /\ call'.max_requested = call.bad_page
                  /\ call'.backoff.kind = "none"
                  /\ call'.streak = 0 /\ run'[r] # run[r]) =>
                 /\ run'[r].pc = "page_done"
                 /\ run'[r].consecutive_errors = run[r].consecutive_errors
                 /\ run'[r].page = run[r].page
                 /\ run'[r].all_ips = run[r].all_ips
                 /\ run'[r].dropped
            /\ (run[r].pc = "page_done" /\ run'[r].pc = "returned"
                  /\ ~call.failed) =>
                 /\ run[r].page = call.bad_page
                 /\ run[r].consecutive_errors = 0
                 /\ run'[r].ret.data =
                      remove_duplicates(Gathered(call.listing, call.bad_page))
       /\ (call.bad_kind = "some" /\ run[r].pc = "page_done"
             /\ run'[r].pc = "returned" /\ ~call.failed) =>
            /\ call.max_requested = call.listing
            /\ Len(run[r].all_ips) = call.listing]_vars

C28_Witness ==
  \E r \in RunIds :
    /\ run[r].pc = "page_done"
    /\ call.bad_kind = "all"
    /\ call.bad_page = 1
    /\ call.listing > 2
    /\ call.max_requested = 1
    /\ run[r].dropped
    /\ run[r].consecutive_errors = 0
    /\ Len(run[r].all_ips) = 1

\* C29: consecutive_errors is the number of page requests that have failed
\* since the last page with records.  A failed request leaves the page
\* index as it is, so the same page is requested again; a page with records
\* sets the counter to 0; the loop ends for errors only when max_page_errors
\* requests in a row have failed, however many have failed in all.
C29_CountsConsecutiveFailures ==
  [][\A r \in RunIds :
       /\ run[r].pc = "page_loop" => run[r].consecutive_errors = call.streak
       /\ (run[r].pc = "page_loop" /\ call'.streak = call.streak + 1) =>
            /\ run'[r].consecutive_errors = run[r].consecutive_errors + 1
            /\ run'[r].page = run[r].page
            /\ run'[r].pc = "page_loop"
            /\ call'.max_requested = run'[r].page
       /\ (run[r].pc = "page_loop"
             /\ Len(run'[r].all_ips) > Len(run[r].all_ips)) =>
            /\ run'[r].consecutive_errors = 0
            /\ run'[r].page = run[r].page + 1
       /\ (run[r].pc = "page_loop" /\ run'[r].pc = "page_done"
             /\ call' = call) =>
            \/ run[r].page = max_pages
            \/ /\ call.streak = max_page_errors
               /\ run[r].consecutive_errors = max_page_errors
               /\ call.max_requested = run[r].page]_vars

C29_Witness ==
  \E r \in RunIds :
    /\ run[r].pc = "page_loop"
    /\ call.failures > max_page_errors
    /\ run[r].consecutive_errors = max_page_errors - 1
    /\ run[r].page = 1
    /\ PageLoopContinues(run[r])

\* C30: when the login succeeds and the page loop gathers no record,
\* _collect_with_login ends with that session: no retry is counted, no
\* further login is made, save_to_database is not called, nothing is
\* raised; collect_from_web returns success = true, data = [], count = 0.
C30_EmptyLoginRunSucceeds ==
  [][\A r \in RunIds :
       /\ (run[r].pc = "page_done" /\ run'[r].pc = "returned"
             /\ run[r].all_ips = <<>>) =>
            /\ ~run'[r].ret.raised
            /\ run'[r].ret.data = <<>>
            /\ run'[r].saves = 0
            /\ db' = db
            /\ run'[r].session_retry_count = run[r].session_retry_count
            /\ run'[r].logins = run[r].logins
            /\ run[r].logins = run[r].session_retry_count + 1
       /\ (run[r].pc = "returned" /\ run'[r].pc = "done"
             /\ run[r].enteredLogin /\ ~run[r].ret.raised
             /\ run[r].ret.data = <<>>) =>
            /\ ~run'[r].result.escaped
            /\ run'[r].result.success
            /\ run'[r].result.data = <<>>
            /\ run'[r].result.count = 0
            /\ run'[r].saves = 0]_vars

C30_Witness ==
  \E r \in RunIds :
    /\ run[r].pc = "done"
    /\ run[r].enteredLogin
    /\ run[r].logins = 2
    /\ run[r].session_retry_count = 1
    /\ run[r].saves = 0
    /\ run[r].result.success
    /\ run[r].result.data = <<>>
    /\ run[r].result.count = 0

====
